---- MODULE Spec2Model ----
(***************************************************************************)
(* Stock-News: the strict fetch-and-filter service (src/news_service.py),  *)
(* its configuration (src/config.py) and the GET / route that calls it     *)
(* (src/app.py); and the Stock variant (src/Stock): its configuration, the *)
(* permissive fetch_stock_news, and the routes / and /health.              *)
(*                                                                         *)
(* Spec is the first request of the strict service over every modelled     *)
(* answer of the upstream API; SpecService is the strict service from its  *)
(* start, with any environment, over a sequence of requests; SpecStock is  *)
(* the process of the Stock variant.                                       *)
(*                                                                         *)
(* A text is a sequence of one-character strings.  A JSON value is a       *)
(* record [t, s, l, m]: its type tag, and its payload as a text (s), a     *)
(* list of values (l) or a mapping from keys to values (m).                *)
(***************************************************************************)
EXTENDS Integers, Sequences, FiniteSets, TLC

\* ------------------------------------------------------------ bounds
\* The longest 'articles' list the upstream API answers with.
MaxArticles == 2

\* ------------------------------------------------------------ texts
KwStock == <<"s", "t", "o", "c", "k">>
KwStocks == <<"s", "t", "o", "c", "k", "s">>
KwShareMarket == <<"s", "h", "a", "r", "e", " ", "m", "a", "r", "k", "e", "t">>
KwSensex == <<"s", "e", "n", "s", "e", "x">>
KwNifty == <<"n", "i", "f", "t", "y">>
KwMarket == <<"m", "a", "r", "k", "e", "t">>
KwEarnings == <<"e", "a", "r", "n", "i", "n", "g", "s">>
KwQuarterResults == <<"q", "u", "a", "r", "t", "e", "r", " ", "r", "e", "s", "u", "l", "t", "s">>

\* news_service.FILTER_KEYWORDS, in the order of the list.
FILTER_KEYWORDS ==
    << KwStock, KwStocks, KwShareMarket, KwSensex, KwNifty, KwMarket,
       KwEarnings, KwQuarterResults >>

\* Texts the upstream API sends in the modelled responses.
TxtStockMarketRises == <<"S", "t", "o", "c", "k", " ", "m", "a", "r", "k", "e", "t", " ", "r", "i", "s", "e", "s">>
TxtStock == <<"S", "t", "o", "c", "k">>
TxtStockUpper == <<"S", "T", "O", "C", "K", " ", "N", "E", "W", "S">>
TxtEarningsReport == <<"E", "A", "R", "N", "I", "N", "G", "S", " ", "u", "p">>
TxtMarketing == <<"D", "i", "g", "i", "t", "a", "l", " ", "m", "a", "r", "k", "e", "t", "i", "n", "g">>
TxtQuarter == <<"Q", "u", "a", "r", "t", "e", "r">>
TxtResults == <<"R", "e", "s", "u", "l", "t", "s">>
TxtNifty == <<"N", "i", "f", "t", "y", " ", "g", "a", "i", "n", "s">>
TxtSensex == <<"S", "e", "n", "s", "e", "x">>
TxtWeather == <<"W", "e", "a", "t", "h", "e", "r">>
TxtSunny == <<"S", "u", "n", "n", "y", " ", "d", "a", "y">>
TxtNotADict == <<"n", "o", "t", " ", "a", " ", "d", "i", "c", "t">>
TxtDate == <<"2", "0", "2", "6", "-", "0", "1", "-", "1", "9", "T", "1", "0", ":", "0", "0", ":", "0", "0", "Z">>
TxtUrl == <<"h", "t", "t", "p", "s", ":", "/", "/", "e", "x", ".", "c", "o", "/", "1">>
TxtBBC == <<"B", "B", "C", " ", "N", "e", "w", "s">>
TxtBbcId == <<"b", "b", "c">>
NEWS_API_URL == <<"h", "t", "t", "p", "s", ":", "/", "/", "n", "e", "w", "s", "a", "p", "i", ".", "o", "r", "g", "/", "v", "2", "/", "e", "v", "e", "r", "y", "t", "h", "i", "n", "g">>
TxtPublishedAt == <<"p", "u", "b", "l", "i", "s", "h", "e", "d", "A", "t">>
TxtEn == <<"e", "n">>
TxtOr == <<" ", "O", "R", " ">>
TxtTestKey == <<"t", "e", "s", "t", "_", "k", "e", "y", "_", "1", "2", "3", "4", "5">>
TxtOtherKey == <<"k", "e", "y", "2">>
TxtFallbackKey == <<"9", "6", "2", "5", "3", "f", "3", "7", "6", "c", "4", "c", "4", "e", "0", "e", "a", "1", "1", "1", "e", "7", "8", "6", "7", "6", "c", "f", "3", "d", "e", "3">>
TxtNone == <<"N", "o", "n", "e">>
Txt123 == <<"1", "2", "3">>
TxtArticles == <<"a", "r", "t", "i", "c", "l", "e", "s">>

\* ------------------------------------------------------------ str.lower / str.upper
UpperLetters ==
    << "A", "B", "C", "D", "E", "F", "G", "H", "I", "J", "K", "L", "M",
       "N", "O", "P", "Q", "R", "S", "T", "U", "V", "W", "X", "Y", "Z" >>

LowerLetters ==
    << "a", "b", "c", "d", "e", "f", "g", "h", "i", "j", "k", "l", "m",
       "n", "o", "p", "q", "r", "s", "t", "u", "v", "w", "x", "y", "z" >>

\* str.lower() on the letters it changes.
LowerOf == [c \in {UpperLetters[n] : n \in 1..26} |->
               LowerLetters[CHOOSE n \in 1..26 : UpperLetters[n] = c]]

\* str.upper() on the letters it changes.
UpperOf == [c \in {LowerLetters[n] : n \in 1..26} |->
               UpperLetters[CHOOSE n \in 1..26 : LowerLetters[n] = c]]

\* One character of str.lower(): an upper-case letter becomes its lower-case
\* letter, every other character is kept.
LowerChar(c) == IF c \in DOMAIN LowerOf THEN LowerOf[c] ELSE c

\* One character of str.upper().
UpperChar(c) == IF c \in DOMAIN UpperOf THEN UpperOf[c] ELSE c

\* One character of str.swapcase().
SwapChar(c) == IF LowerChar(c) # c THEN LowerChar(c) ELSE UpperChar(c)

\* str.lower() of a text.
Lower(text) == [n \in 1..Len(text) |-> LowerChar(text[n])]

\* str.upper() of a text.
Upper(text) == [n \in 1..Len(text) |-> UpperChar(text[n])]

\* str.swapcase() of a text.
SwapCase(text) == [n \in 1..Len(text) |-> SwapChar(text[n])]

\* ------------------------------------------------------------ JSON values
NoKeys == [k \in {} |-> 0]

JNull == [t |-> "null", s |-> <<>>, l |-> <<>>, m |-> NoKeys]

JNum == [t |-> "num", s |-> <<>>, l |-> <<>>, m |-> NoKeys]

JStr(text) == [t |-> "str", s |-> text, l |-> <<>>, m |-> NoKeys]

JList(items) == [t |-> "list", s |-> <<>>, l |-> items, m |-> NoKeys]

JDict(map) == [t |-> "dict", s |-> <<>>, l |-> <<>>, m |-> map]

\* Not a JSON value: marks a key that a mapping is built without.
Missing == [t |-> "missing", s |-> <<>>, l |-> <<>>, m |-> NoKeys]

\* isinstance(value, dict) / isinstance(value, str) / isinstance(value, list)
IsDict(value) == value.t = "dict"

IsStr(value) == value.t = "str"

IsList(value) == value.t = "list"

\* dict.get(key, default)
GetOr(dict, key, default) ==
    IF key \in DOMAIN dict.m THEN dict.m[key] ELSE default

\* dict.get(key): None when the key is missing.
Get(dict, key) == GetOr(dict, key, JNull)

\* ------------------------------------------------------------ news_service.py helpers
\* The mutant of _extract_source_name that hands back a source that is no
\* mapping, and fails to find the name of a mapping without one.
extract_source_name_raw(source) ==
    IF IsDict(source) THEN GetOr(source, "name", JStr(<<"?">>))
    ELSE source

\* _extract_source_name(source)
extract_source_name(source) ==
    IF source = JNull THEN JNull
    ELSE IF IsDict(source) THEN Get(source, "name")
    ELSE JNull

\* The mutant of the loop of _safe_get_text that also takes the texts held in a
\* value that is a list.
TextPartsFlattening(article, keys) ==
    LET RECURSIVE Visit(_, _)
        Visit(n, parts) ==
            IF n > Len(keys) THEN parts
            ELSE LET value == Get(article, keys[n])
                 IN  IF value # JNull /\ IsStr(value)
                     THEN Visit(n + 1, Append(parts, value.s))
                     ELSE IF IsList(value)
                     THEN Visit(n + 1,
                                parts \o [m \in 1..Len(value.l) |->
                                            IF IsStr(value.l[m]) THEN value.l[m].s ELSE <<>>])
                     ELSE Visit(n + 1, parts)
    IN  Visit(1, <<>>)

\* The loop of _safe_get_text: text_parts after the keys have been visited.
TextParts(article, keys) ==
    LET RECURSIVE Visit(_, _)
        Visit(n, parts) ==
            IF n > Len(keys) THEN parts
            ELSE LET value == Get(article, keys[n])
                 IN  IF value # JNull /\ IsStr(value)
                     THEN Visit(n + 1, Append(parts, value.s))
                     ELSE Visit(n + 1, parts)
    IN  Visit(1, <<>>)

\* sep.join(parts)
RECURSIVE Join(_, _)
Join(sep, parts) ==
    IF parts = <<>> THEN <<>>
    ELSE IF Len(parts) = 1 THEN parts[1]
    ELSE parts[1] \o sep \o Join(sep, Tail(parts))

\* The text of a key of the mappings of the model.
KeyText(key) ==
    CASE key = "id" -> <<"i", "d">>
      [] key = "name" -> <<"n", "a", "m", "e">>
      [] key = "status" -> <<"s", "t", "a", "t", "u", "s">>
      [] key = "articles" -> TxtArticles
      [] key = "title" -> <<"t", "i", "t", "l", "e">>
      [] key = "description" -> <<"d", "e", "s", "c", "r", "i", "p", "t", "i", "o", "n">>
      [] key = "publishedAt" -> TxtPublishedAt
      [] key = "source" -> <<"s", "o", "u", "r", "c", "e">>
      [] key = "url" -> <<"u", "r", "l">>
      [] OTHER -> <<"?">>

\* The elements of a finite set, one after the other.
RECURSIVE SeqOf(_)
SeqOf(S) ==
    IF S = {} THEN <<>>
    ELSE LET x == CHOOSE y \in S : TRUE IN <<x>> \o SeqOf(S \ {x})

\* repr(value)
RECURSIVE Repr(_)
Repr(value) ==
    CASE value.t = "str" -> <<"'">> \o value.s \o <<"'">>
      [] value.t = "num" -> Txt123
      [] value.t = "list" ->
            <<"[">> \o Join(<<",", " ">>, [n \in 1..Len(value.l) |-> Repr(value.l[n])]) \o <<"]">>
      [] value.t = "dict" ->
            LET keys == SeqOf(DOMAIN value.m)
            IN  <<"{">>
                \o Join(<<",", " ">>,
                        [n \in 1..Len(keys) |->
                            <<"'">> \o KeyText(keys[n]) \o <<"'", ":", " ">>
                            \o Repr(value.m[keys[n]])])
                \o <<"}">>
      [] OTHER -> TxtNone

\* str(value)
Str(value) == IF value.t = "str" THEN value.s ELSE Repr(value)

\* The mutant of _safe_get_text that takes every value that is not empty, as
\* str() gives it.
safe_get_text_str(article, keys) ==
    LET RECURSIVE Visit(_, _)
        Visit(n, parts) ==
            IF n > Len(keys) THEN parts
            ELSE LET value == Get(article, keys[n])
                 IN  IF value.t \in {"str", "num", "list", "dict"} /\ Str(value) # <<>>
                     THEN Visit(n + 1, Append(parts, Str(value)))
                     ELSE Visit(n + 1, parts)
    IN  Lower(Join(<<" ">>, Visit(1, <<>>)))

\* The mutant of _safe_get_text that leaves the text in the case it came in.
safe_get_text_as_is(article, keys) == Join(<<" ">>, TextParts(article, keys))

\* _safe_get_text(article, *keys)
safe_get_text(article, keys) == Lower(Join(<<" ">>, TextParts(article, keys)))

\* Python's  needle in text  for two texts.
In(needle, text) ==
    \E k \in 0..(Len(text) - Len(needle)) :
        SubSeq(text, k + 1, k + Len(needle)) = needle

\* The mutant of _matches_keywords that matches whole words only.
matches_keywords_words(text, keywords) ==
    IF text = <<>> THEN FALSE
    ELSE \E n \in 1..Len(keywords) :
            LET kw == Lower(keywords[n])
            IN  \E k \in 0..(Len(text) - Len(kw)) :
                    /\ SubSeq(text, k + 1, k + Len(kw)) = kw
                    /\ (k = 0 \/ text[k] = " ")
                    /\ (k + Len(kw) = Len(text) \/ text[k + Len(kw) + 1] = " ")

\* _matches_keywords(text, keywords)
matches_keywords(text, keywords) ==
    IF text = <<>> THEN FALSE
    ELSE \E n \in 1..Len(keywords) : In(Lower(keywords[n]), text)

\* The mutant of the appended dict that fills in placeholders, as the
\* permissive variant does, and lowercases the title.
SummaryWithDefaults(article) ==
    [ title       |-> IF IsStr(Get(article, "title"))
                      THEN JStr(Lower(Get(article, "title").s))
                      ELSE Get(article, "title"),
      date        |-> GetOr(article, "publishedAt", JStr(<<>>)),
      source      |-> extract_source_name(Get(article, "source")),
      description |-> Get(article, "description"),
      url         |-> GetOr(article, "url", JStr(<<"#">>)) ]

\* The dict appended to filtered for a selected article (lines 127-133).
Summary(article) ==
    [ title       |-> Get(article, "title"),
      date        |-> Get(article, "publishedAt"),
      source      |-> extract_source_name(Get(article, "source")),
      description |-> Get(article, "description"),
      url         |-> Get(article, "url") ]

\* The keyword test of the loop body on a mapping (lines 122-125).
ArticleMatches(article) ==
    matches_keywords(safe_get_text(article, <<"title", "description">>),
                     FILTER_KEYWORDS)

\* The mutant of the loop body that starts filtered afresh at an element that
\* is no mapping.
LoopBodyRestarting(acc, article) ==
    IF ~IsDict(article) THEN <<>>
    ELSE IF ArticleMatches(article) THEN Append(acc, Summary(article))
    ELSE acc

\* The mutant of the loop body that puts the newest summary first.
LoopBodyPrepending(acc, article) ==
    IF ~IsDict(article) THEN acc
    ELSE IF ArticleMatches(article) THEN <<Summary(article)>> \o acc
    ELSE acc

\* One pass of the loop body over one element (lines 118-133): filtered afterwards.
LoopBody(acc, article) ==
    IF ~IsDict(article) THEN acc
    ELSE IF ArticleMatches(article) THEN Append(acc, Summary(article))
    ELSE acc

\* The whole for loop (lines 115-135): the list returned for an articles list.
FilterArticles(items) ==
    LET RECURSIVE Loop(_, _)
        Loop(n, acc) ==
            IF n > Len(items) THEN acc
            ELSE Loop(n + 1, LoopBody(acc, items[n]))
    IN  Loop(1, <<>>)

\* Response.raise_for_status(): an HTTPError for a 4xx or 5xx status.
RaisesForStatus(status) == 400 <= status /\ status < 600

\* ------------------------------------------------------------ upstream responses
\* A mapping holding the keys of fields whose value is not Missing.
MkDict(fields) ==
    JDict([k \in {x \in DOMAIN fields : fields[x] # Missing} |-> fields[k]])

Article(title, description, publishedAt, source, url) ==
    MkDict([ title |-> title, description |-> description,
             publishedAt |-> publishedAt, source |-> source, url |-> url ])

FullSource == JDict([id |-> JStr(TxtBbcId), name |-> JStr(TxtBBC)])

\* <<title, description>> of the articles that differ in their texts.
TextPairs ==
    { <<JStr(TxtStockUpper), JStr(TxtEarningsReport)>>,
      <<JStr(TxtMarketing), JNull>>,
      <<JStr(TxtQuarter), JStr(TxtResults)>>,
      <<JNum, JStr(TxtNifty)>>,
      <<JStr(TxtWeather), JStr(KwStocks)>>,
      <<JStr(TxtWeather), JStr(TxtSunny)>>,
      <<JNull, JList(<<JStr(KwStock)>>)>>,
      <<Missing, Missing>> }

\* 'source' values of the articles that differ in their source.
SourceShapes ==
    { JStr(TxtBBC), JDict(NoKeys), JDict([id |-> JStr(TxtBbcId)]),
      JDict([name |-> JNull]), JDict([name |-> JNum]) }

\* The elements an 'articles' list is made of.
ArticlePool ==
    { Article(p[1], p[2], JStr(TxtDate), FullSource, JStr(TxtUrl)) : p \in TextPairs }
    \cup { Article(JStr(TxtSensex), JStr(TxtSunny), JStr(TxtDate), src, JStr(TxtUrl)) :
             src \in SourceShapes }
    \cup { Article(JStr(TxtStockMarketRises), Missing, JStr(TxtDate), Missing, Missing),
           Article(JStr(TxtStock), JNull, JNull, JNull, JNull),
           Article(JStr(TxtSensex), JStr(TxtSunny), JNum, FullSource, JList(<<>>)) }
    \cup { JStr(TxtNotADict), JNull, JNum }

\* Every list of at most n elements of S.
ListsUpTo(S, n) == UNION { [1..k -> S] : k \in 0..n }

\* Not a JSON value: a body that Response.json() cannot parse.
NotJson == [t |-> "notjson", s |-> <<>>, l |-> <<>>, m |-> NoKeys]

\* The bodies the upstream API answers with.
Bodies ==
    { NotJson, JStr(TxtNotADict), JNull, JNum, JList(<<>>),
      JDict(NoKeys), JDict([status |-> JStr(TxtStock)]) }
    \cup { JDict([articles |-> a]) :
             a \in {JNull, JNum, JStr(TxtStock), JDict(NoKeys)} }
    \cup { JDict([status |-> JStr(TxtStock), articles |-> JList(items)]) :
             items \in ListsUpTo(ArticlePool, MaxArticles) }

\* The HTTP statuses the upstream API answers with.
Statuses == {200, 304, 404, 500}

\* The outcomes of requests.get: an exception of the transport, or a response.
Responses ==
    { [error |-> e, status |-> 0, body |-> JNull] : e \in {"ConnectionError", "Timeout"} }
    \cup { [error |-> "", status |-> st, body |-> b] : st \in Statuses, b \in Bodies }

NoResponse == [error |-> "", status |-> 0, body |-> JNull]

\* ------------------------------------------------------------ exceptions
NoException == [type |-> "", msg |-> ""]

Exception(type, msg) == [type |-> type, msg |-> msg]

\* The exception types that are requests.RequestException.
RequestExceptions == {"ConnectionError", "Timeout", "HTTPError"}

\* ------------------------------------------------------------ fetch_filtered_news, top of the try block
\* The mutant of the checks that leaves out raise_for_status.
CheckResponseAnyStatus(resp) ==
    IF resp.body = NotJson
    THEN Exception("JSONDecodeError", "body")
    ELSE IF ~IsDict(resp.body)
    THEN Exception("ValueError", "Invalid API response format: expected dict")
    ELSE IF ~IsList(GetOr(resp.body, "articles", JList(<<>>)))
    THEN Exception("ValueError", "Invalid articles format: expected list")
    ELSE NoException

\* The mutant of the checks that takes an 'articles' that is no list for no
\* articles, as the permissive variant does.
CheckResponseLenient(resp) ==
    IF RaisesForStatus(resp.status)
    THEN Exception("HTTPError", "status")
    ELSE IF resp.body = NotJson
    THEN Exception("JSONDecodeError", "body")
    ELSE IF ~IsDict(resp.body)
    THEN Exception("ValueError", "Invalid API response format: expected dict")
    ELSE NoException

\* The mutant of the checks that reads data['articles'] instead of
\* data.get('articles', []).
CheckResponseSubscript(resp) ==
    IF RaisesForStatus(resp.status)
    THEN Exception("HTTPError", "status")
    ELSE IF resp.body = NotJson
    THEN Exception("JSONDecodeError", "body")
    ELSE IF ~IsDict(resp.body)
    THEN Exception("ValueError", "Invalid API response format: expected dict")
    ELSE IF "articles" \notin DOMAIN resp.body.m
    THEN Exception("KeyError", "articles")
    ELSE IF ~IsList(resp.body.m["articles"])
    THEN Exception("ValueError", "Invalid articles format: expected list")
    ELSE NoException

\* The exception lines 102-113 raise for a response requests.get returned
\* (raise_for_status, json, the two isinstance checks), or NoException.
CheckResponse(resp) ==
    IF RaisesForStatus(resp.status)
    THEN Exception("HTTPError", "status")
    ELSE IF resp.body = NotJson
    THEN Exception("JSONDecodeError", "body")
    ELSE IF ~IsDict(resp.body)
    THEN Exception("ValueError", "Invalid API response format: expected dict")
    ELSE IF ~IsList(GetOr(resp.body, "articles", JList(<<>>)))
    THEN Exception("ValueError", "Invalid articles format: expected list")
    ELSE NoException

\* articles (line 110) of a response that passed the checks.
ArticlesOf(resp) == GetOr(resp.body, "articles", JList(<<>>)).l

\* ------------------------------------------------------------ config.py
\* os.getenv('NEWS_API_KEY') (config.py 6): None when the variable is absent.
getenv(environment) == IF environment = Missing THEN JNull ELSE environment

\* Python's truth value of a JSON value: None, '', [] and {} are false; the
\* number of the model is not zero.
Truthy(value) ==
    CASE value.t = "null" -> FALSE
      [] value.t = "str" -> value.s # <<>>
      [] value.t = "list" -> value.l # <<>>
      [] value.t = "dict" -> DOMAIN value.m # {}
      [] OTHER -> TRUE

\* The mutant of config.py that refuses an absent variable only.
load_config_is_none(environment) ==
    LET value == getenv(environment)
    IN  IF value = JNull
        THEN [raised |-> Exception("ValueError", "NEWS_API_KEY environment variable not set."),
              NEWS_API_KEY |-> JNull]
        ELSE [raised |-> NoException, NEWS_API_KEY |-> value]

\* The import of config.py (lines 6-8): the exception it raises, or the module
\* attribute NEWS_API_KEY it binds.
load_config(environment) ==
    LET value == getenv(environment)
    IN  IF ~Truthy(value)
        THEN [raised |-> Exception("ValueError", "NEWS_API_KEY environment variable not set."),
              NEWS_API_KEY |-> JNull]
        ELSE [raised |-> NoException, NEWS_API_KEY |-> value]

\* ------------------------------------------------------------ time
\* An instant: whole hours since some epoch, and whether a fraction of a second
\* is past the whole second.
Instant(h, frac) == [h |-> h, frac |-> frac]

\* No instant: a parameter that is not sent.
NoInstant == Instant(0, 0)

\* t - timedelta(days=n)
MinusDays(t, n) == [t EXCEPT !.h = @ - (n * 24)]

\* t.strftime('%Y-%m-%dT%H:%M:%S'): the text tells the instant to the second.
strftime(t) == [t EXCEPT !.frac = 0]

\* ------------------------------------------------------------ the outbound request
\* The mutant of the call that passes no timeout.
BuildRequestNoTimeout(key, now) ==
    [ url |-> NEWS_API_URL,
      q |-> Join(TxtOr, FILTER_KEYWORDS),
      from |-> strftime(MinusDays(now, 1)),
      to |-> NoInstant,
      sortBy |-> TxtPublishedAt,
      language |-> TxtEn,
      apiKey |-> key,
      pageSize |-> 50,
      timeout |-> 0 ]

\* The arguments of requests.get (news_service.py 91-101).
BuildRequest(key, now) ==
    [ url |-> NEWS_API_URL,
      q |-> Join(TxtOr, FILTER_KEYWORDS),
      from |-> strftime(MinusDays(now, 1)),
      to |-> NoInstant,
      sortBy |-> TxtPublishedAt,
      language |-> TxtEn,
      apiKey |-> key,
      pageSize |-> 50,
      timeout |-> 10 ]

NoRequest ==
    [ url |-> <<>>, q |-> <<>>, from |-> NoInstant, to |-> NoInstant, sortBy |-> <<>>,
      language |-> <<>>, apiKey |-> JNull, pageSize |-> 0, timeout |-> 0 ]

\* The mutant of the first except clause that calls requests.get again.
ExceptRequestExceptionRetry == "called"

\* Where the first except clause (137-140) leaves the invocation: it prints the
\* error and raises it again.
ExceptRequestException == "raised"

\* ------------------------------------------------------------ state
VARIABLES
    pc,        \* where the process is: start, halted (the import of config
               \* raised), idle, and for the request being served called,
               \* awaiting, received, loop, returned, raised, rendered, failed
    env,       \* the environment variable NEWS_API_KEY of the process
    NEWS_API_KEY, \* config.NEWS_API_KEY, which news_service imports (line 4)
    clock,     \* what datetime.now gives
    sent,      \* the arguments of the last requests.get (line 101)
    invocations, \* how many times fetch_filtered_news was called
    requests,  \* how many times requests.get was called
    response,  \* what requests.get gave (line 101)
    articles,  \* the local articles (line 110)
    i,         \* the position of the for loop in articles (line 117)
    filtered,  \* the local filtered (line 115)
    picked,    \* for each element of filtered, the position in articles of the
               \* article the append (line 127) was made for
    exc,       \* the exception fetch_filtered_news raised to its caller, or
               \* the one the import of config raised
    page,      \* what index() gave Flask: the status and the news of the
               \* rendered page, or the exception that left index()
    served,    \* for each request that is over, in their order: what
               \* requests.get gave and how fetch_filtered_news ended
    stock      \* the process of the Stock variant (src/Stock)

vars ==
    << pc, env, NEWS_API_KEY, clock, sent, invocations, requests, response,
       articles, i, filtered, picked, exc, page, served, stock >>

\* The variables of the process that runs src/app.py.
strict ==
    << pc, env, NEWS_API_KEY, clock, sent, invocations, requests, response,
       articles, i, filtered, picked, exc, page, served >>

NoPage == [status |-> 0, news |-> <<>>, raised |-> NoException]

NoStockPage == [status |-> 0, articles |-> <<>>, error |-> JNull]

\* /health has not been asked.
NoHealth == JNull

NoOutcome == [raised |-> NoException, value |-> <<>>]

\* The process of the Stock variant (src/Stock/app.py): where it is (off,
\* start, halted, idle, awaiting, fetched, rendered), its environment variable
\* NEWS_API_KEY, config.NEWS_API_KEY, sys.path, what datetime.utcnow gives, the
\* arguments of the last requests.get, what requests.get gave, what
\* fetch_stock_news gave index(), the page index() rendered and the last
\* answer of /health.
StockProcess(where, environment, path, now) ==
    [ pc |-> where, env |-> environment, NEWS_API_KEY |-> JNull, path |-> path,
      now |-> now, sent |-> NoRequest, response |-> NoResponse,
      fetched |-> NoOutcome, page |-> NoStockPage, health |-> NoHealth ]

\* The process of the Stock variant before it is started.
StockOff == StockProcess("off", Missing, <<>>, NoInstant)

\* The process starts with an environment and a clock: nothing is imported yet.
Boot(environments, instants) ==
    /\ pc = "start"
    /\ env \in environments
    /\ NEWS_API_KEY = JNull
    /\ clock \in instants
    /\ sent = NoRequest
    /\ invocations = 0
    /\ requests = 0
    /\ response = NoResponse
    /\ articles = <<>>
    /\ i = 1
    /\ filtered = <<>>
    /\ picked = <<>>
    /\ exc = NoException
    /\ page = NoPage
    /\ served = <<>>

\* The process is started with NEWS_API_KEY=test_key_12345.
Init ==
    /\ Boot({JStr(TxtTestKey)}, {Instant(100, 1)})
    /\ stock = StockOff

\* The mutant of the page that answers 404 when there is no news.
PageOfOrNotFound(news) ==
    [status |-> IF news = <<>> THEN 404 ELSE 200, news |-> news, raised |-> NoException]

\* What index() returns for the list it got (app.py 13): the rendered page,
\* which Flask answers with status 200.
PageOf(news) == [status |-> 200, news |-> news, raised |-> NoException]

\* app.py is imported: it imports news_service, which imports config
\* (app.py 2, news_service.py 4, config.py 6-8).  When config raises, neither
\* news_service nor app is imported: there is no route and no
\* fetch_filtered_news to call.
LoadConfig ==
    /\ pc = "start"
    /\ LET loaded == load_config(env)
       IN  /\ pc' = IF loaded.raised # NoException THEN "halted" ELSE "idle"
           /\ exc' = loaded.raised
           /\ NEWS_API_KEY' = loaded.NEWS_API_KEY
    /\ UNCHANGED << served, env, clock, sent, invocations, requests, response, articles,
                    i, filtered, picked, page, stock >>

\* The most invocations of fetch_filtered_news a behaviour has.
MaxCalls == 2

\* GET / arrives: index() calls fetch_filtered_news (app.py 12).
Index ==
    /\ pc = "idle"
    /\ invocations < MaxCalls
    /\ pc' = "called"
    /\ invocations' = invocations + 1
    /\ UNCHANGED << served, env, NEWS_API_KEY, clock, sent, requests, response, articles,
                    i, filtered, picked, exc, page, stock >>

\* fetch_filtered_news builds the parameters and calls requests.get
\* (news_service.py 88-101).
SendRequest ==
    /\ pc = "called"
    /\ pc' = "awaiting"
    /\ sent' = BuildRequest(NEWS_API_KEY, clock)
    /\ requests' = requests + 1
    /\ UNCHANGED << served, env, NEWS_API_KEY, clock, invocations, response, articles,
                    i, filtered, picked, exc, page, stock >>

\* requests.get ends (line 101) with one of the given outcomes: it raises an
\* exception of the transport, which the first except clause handles
\* (137-140), or it returns.
RequestsGetFrom(outcomes) ==
    /\ pc = "awaiting"
    /\ \E r \in outcomes :
        /\ response' = r
        /\ IF r.error # ""
           THEN /\ pc' = ExceptRequestException
                /\ exc' = Exception(r.error, "transport")
           ELSE /\ pc' = "received"
                /\ exc' = exc
    /\ UNCHANGED << served, env, NEWS_API_KEY, clock, sent, invocations, requests,
                    articles, i, filtered, picked, page, stock >>

RequestsGet == RequestsGetFrom(Responses)

\* The mutant of lines 102-115 in which filtered is a list of the module that
\* still holds the summaries of the request before.
ValidateKeepingResults ==
    /\ pc = "received"
    /\ LET e == CheckResponse(response)
       IN  IF e # NoException
           THEN /\ pc' = "raised"
                /\ exc' = e
                /\ UNCHANGED <<articles, i, filtered>>
           ELSE /\ pc' = "loop"
                /\ articles' = ArticlesOf(response)
                /\ i' = 1
                /\ filtered' = IF served = <<>> THEN <<>>
                                ELSE served[Len(served)].outcome.value
                /\ exc' = exc
    /\ UNCHANGED << served, env, NEWS_API_KEY, clock, sent, invocations, requests,
                    response, picked, page, stock >>

\* Lines 102-115: the status, the body and its shape are checked; an exception
\* is printed and raised again by the except clauses (137-144).
Validate ==
    /\ pc = "received"
    /\ LET e == CheckResponse(response)
       IN  IF e # NoException
           THEN /\ pc' = "raised"
                /\ exc' = e
                /\ UNCHANGED <<articles, i, filtered>>
           ELSE /\ pc' = "loop"
                /\ articles' = ArticlesOf(response)
                /\ i' = 1
                /\ filtered' = <<>>
                /\ exc' = exc
    /\ UNCHANGED << served, env, NEWS_API_KEY, clock, sent, invocations, requests,
                    response, picked, page, stock >>

\* One iteration of the for loop (lines 117-133).
Iterate ==
    /\ pc = "loop"
    /\ i <= Len(articles)
    /\ filtered' = LoopBody(filtered, articles[i])
    /\ picked' = IF Len(filtered') > Len(filtered) THEN Append(picked, i) ELSE picked
    /\ i' = i + 1
    /\ UNCHANGED << served, pc, env, NEWS_API_KEY, clock, sent, invocations, requests,
                    response, articles, exc, page, stock >>

\* The loop is over: return filtered (line 135).
Return ==
    /\ pc = "loop"
    /\ i > Len(articles)
    /\ pc' = "returned"
    /\ UNCHANGED << served, env, NEWS_API_KEY, clock, sent, invocations, requests,
                    response, articles, i, filtered, picked, exc, page, stock >>

\* index() renders the template with the list it got (app.py 13).
Render ==
    /\ pc = "returned"
    /\ pc' = "rendered"
    /\ page' = PageOf(filtered)
    /\ UNCHANGED << served, env, NEWS_API_KEY, clock, sent, invocations, requests,
                    response, articles, i, filtered, picked, exc, stock >>

\* index() has no handler around the call (app.py 12): the exception of
\* fetch_filtered_news leaves index().
Propagate ==
    /\ pc = "raised"
    /\ pc' = "failed"
    /\ page' = [status |-> 0, news |-> <<>>, raised |-> exc]
    /\ UNCHANGED << served, env, NEWS_API_KEY, clock, sent, invocations, requests,
                    response, articles, i, filtered, picked, exc, stock >>

\* How fetch_filtered_news has ended for index(): the exception it raised
\* (137-144) or the list it returned (135).
Outcome ==
    IF pc = "failed" THEN [raised |-> exc, value |-> <<>>]
    ELSE [raised |-> NoException, value |-> filtered]

\* The request is over; nothing of it is kept for the next one: the locals of
\* fetch_filtered_news and of index() are gone.
Finish ==
    /\ pc \in {"rendered", "failed"}
    /\ pc' = "idle"
    /\ response' = NoResponse
    /\ articles' = <<>>
    /\ i' = 1
    /\ filtered' = <<>>
    /\ picked' = <<>>
    /\ exc' = NoException
    /\ page' = NoPage
    /\ served' = Append(served, [response |-> response, outcome |-> Outcome])
    /\ UNCHANGED << env, NEWS_API_KEY, clock, sent, invocations, requests, stock >>

\* The first request after a start with a key, over every modelled answer of
\* the upstream API.
Next ==
    \/ LoadConfig
    \/ Index
    \/ SendRequest
    \/ RequestsGet
    \/ Validate
    \/ Iterate
    \/ Return
    \/ Render
    \/ Propagate

Spec == Init /\ [][Next]_vars

\* ------------------------------------------------------------ the service from its start
\* The values of the environment variable: absent, empty, or a key.
Environments == {Missing, JStr(<<>>), JStr(TxtTestKey), JStr(TxtOtherKey)}

Instants == {Instant(100, 0), Instant(123, 1)}

\* A few answers of the upstream API, one of each kind.
FewResponses ==
    { [error |-> "ConnectionError", status |-> 0, body |-> JNull],
      [error |-> "Timeout", status |-> 0, body |-> JNull],
      [error |-> "", status |-> 500, body |-> JDict(NoKeys)],
      [error |-> "", status |-> 200, body |-> NotJson],
      [error |-> "", status |-> 200, body |-> JList(<<>>)],
      [error |-> "", status |-> 200, body |-> JDict(NoKeys)],
      [error |-> "", status |-> 200,
       body |-> JDict([articles |->
                  JList(<< Article(JStr(TxtStock), JNull, JNull, JNull, JNull) >>)])],
      [error |-> "", status |-> 200,
       body |-> JDict([articles |->
                  JList(<< Article(JStr(TxtWeather), JStr(TxtSunny), JStr(TxtDate),
                                   FullSource, JStr(TxtUrl)),
                           Article(JStr(TxtQuarter), JStr(TxtResults), JStr(TxtDate),
                                   FullSource, JStr(TxtUrl)) >>)])] }

InitService ==
    /\ Boot(Environments, Instants)
    /\ stock = StockOff

ServiceGet == RequestsGetFrom(FewResponses)

\* The process from its start on, serving one request after the other.
NextService ==
    \/ LoadConfig
    \/ Index
    \/ SendRequest
    \/ ServiceGet
    \/ Validate
    \/ Iterate
    \/ Return
    \/ Render
    \/ Propagate
    \/ Finish

SpecService == InitService /\ [][NextService]_vars

\* ------------------------------------------------------------ what the claims speak of
\* The request has passed the shape checks: the loop runs or fetch_filtered_news
\* has returned.
Filtering == pc \in {"loop", "returned", "rendered"}

\* fetch_filtered_news has returned its list.
Returned == pc \in {"returned", "rendered"}

\* fetch_filtered_news has raised.
Raised == pc \in {"raised", "failed"}

\* The positions of articles the loop has been over.
Visited == {n \in 1..Len(articles) : n < i}

\* The positions of articles a summary was made for.
PickedSet == {picked[k] : k \in 1..Len(picked)}

\* The value of a key of a mapping as the claims name it: null when missing.
Field(article, key) ==
    IF key \in DOMAIN article.m THEN article.m[key] ELSE JNull

\* The lowercased text of a field: empty when the field is missing or no text.
FieldText(article, key) ==
    IF Field(article, key).t = "str" THEN Lower(Field(article, key).s) ELSE <<>>

\* The lowercased title and description of an article, a space between them
\* when both are texts.
Haystack(article) ==
    LET title == FieldText(article, "title")
        description == FieldText(article, "description")
    IN  IF Field(article, "title").t = "str" /\ Field(article, "description").t = "str"
        THEN title \o <<" ">> \o description
        ELSE title \o description

\* keyword occurs in text as a plain substring, at some offset.
OccursIn(keyword, text) ==
    \E off \in 0..(Len(text) - Len(keyword)) :
        \A j \in 1..Len(keyword) : text[off + j] = keyword[j]

\* The article is a mapping whose haystack holds a keyword of FILTER_KEYWORDS.
HoldsKeyword(article) ==
    /\ article.t = "dict"
    /\ \E n \in 1..Len(FILTER_KEYWORDS) : OccursIn(FILTER_KEYWORDS[n], Haystack(article))

\* C1: among the articles the loop has been over, a summary was made exactly
\* for those that are mappings whose lowercased title and description hold a
\* keyword as a plain substring, one summary each.
C1_SelectedIffKeyword ==
    Filtering =>
        /\ Len(picked) = Len(filtered)
        /\ \A n \in Visited : (n \in PickedSet) <=> HoldsKeyword(articles[n])
        /\ \A n \in PickedSet : n \in Visited
        /\ \A k1, k2 \in 1..Len(picked) : picked[k1] = picked[k2] => k1 = k2

\* C1 witness: a list was returned in which 'Digital marketing' was selected on
\* the keyword 'market' and another element was not selected.
C1_Witness ==
    /\ Returned
    /\ \E n \in PickedSet : Field(articles[n], "title") = JStr(TxtMarketing)
    /\ \E n \in 1..Len(articles) : n \notin PickedSet

\* A text in another letter case.
Recase(mode, text) ==
    CASE mode = "upper" -> Upper(text)
      [] mode = "lower" -> Lower(text)
      [] mode = "swap"  -> SwapCase(text)
      [] OTHER          -> text

CaseModes == {"upper", "lower", "swap", "same"}

\* The article with its text fields among keys in another letter case.
RecasedArticle(article, keys, mode) ==
    [article EXCEPT !.m =
        [k \in DOMAIN article.m |->
            IF k \in keys /\ article.m[k].t = "str"
            THEN JStr(Recase(mode, article.m[k].s))
            ELSE article.m[k]]]

\* The keyword list with every keyword in another letter case.
RecasedKeywords(mode) ==
    [n \in 1..Len(FILTER_KEYWORDS) |-> Recase(mode, FILTER_KEYWORDS[n])]

\* C2: whether an article is selected does not change with the letter case of
\* its title, of its description or of the keywords: the selection the loop
\* has just made for an article is the one the code makes for the article with
\* the title and the description recased (each on its own), and for the
\* keywords recased.
C2_CaseInsensitive ==
    (pc = "loop" /\ i > 1 /\ IsDict(articles[i - 1])) =>
        LET article == articles[i - 1]
            selected == (i - 1) \in PickedSet
        IN  /\ \A mt, md \in CaseModes :
                  ArticleMatches(
                      RecasedArticle(RecasedArticle(article, {"title"}, mt),
                                     {"description"}, md))
                  <=> selected
            /\ \A mk \in CaseModes :
                  matches_keywords(
                      safe_get_text(article, <<"title", "description">>),
                      RecasedKeywords(mk))
                  <=> selected

\* C2 witness: the article titled 'STOCK NEWS' was selected, and an article
\* whose texts hold no keyword in any case was not.
C2_Witness ==
    /\ Returned
    /\ \E n \in PickedSet : Field(articles[n], "title") = JStr(TxtStockUpper)
    /\ \E n \in 1..Len(articles) :
        /\ n \notin PickedSet
        /\ Field(articles[n], "description") = JStr(TxtSunny)

\* The elements of a list that are mappings, in their order.
MappingsOf(items) ==
    LET IsMapping(x) == x.t = "dict"
    IN  SelectSeq(items, IsMapping)

\* C3: an element that is no mapping is skipped without an error and without a
\* trace in the result: no exception is raised once the loop runs, and the list
\* returned is the one the code returns for the same articles with the elements
\* that are no mappings removed.
C3_MalformedSkipped ==
    /\ Filtering => exc = NoException
    /\ Returned => filtered = FilterArticles(MappingsOf(articles))

\* C3 witness: a list was returned for articles in which an element that is no
\* mapping comes before an article that was selected.
C3_Witness ==
    /\ Returned
    /\ \E n \in 1..Len(articles) :
        /\ ~IsDict(articles[n])
        /\ \E a \in PickedSet : a > n

\* The source name the claim gives an article: null when 'source' is absent,
\* null, no mapping or a mapping without 'name', the value of 'name' otherwise.
SourceNameOf(article) ==
    IF "source" \notin DOMAIN article.m THEN JNull
    ELSE IF article.m["source"].t # "dict" THEN JNull
    ELSE IF "name" \notin DOMAIN article.m["source"].m THEN JNull
    ELSE article.m["source"].m["name"]

\* C4: the source of every summary is the source name of the article it was
\* made for, and no shape of 'source' raises an exception.
C4_SourceName ==
    Filtering =>
        /\ exc = NoException
        /\ \A k \in 1..Len(filtered) :
              filtered[k].source = SourceNameOf(articles[picked[k]])

\* C4 witness: the returned list holds a summary with a null source made for an
\* article whose source is a mapping without 'name', and a summary with the
\* name of its article's source.
C4_Witness ==
    /\ Returned
    /\ \E k \in 1..Len(filtered) :
        /\ filtered[k].source = JNull
        /\ Field(articles[picked[k]], "source") = JDict([id |-> JStr(TxtBbcId)])
    /\ \E k \in 1..Len(filtered) : filtered[k].source = JStr(TxtBBC)

\* The article of the specification's example: a title and a publishedAt only.
PartialArticle ==
    JDict([title |-> JStr(TxtStockMarketRises), publishedAt |-> JStr(TxtDate)])

\* C5: every summary carries the literal title, publishedAt, description and
\* url of the article it was made for, null for a key that is missing or null;
\* the article with only the title 'Stock market rises' and a publishedAt gives
\* exactly one summary, with source, description and url null.
C5_LiteralFields ==
    Filtering =>
        /\ \A k \in 1..Len(filtered) :
              LET article == articles[picked[k]]
              IN  /\ filtered[k].title = Field(article, "title")
                  /\ filtered[k].date = Field(article, "publishedAt")
                  /\ filtered[k].description = Field(article, "description")
                  /\ filtered[k].url = Field(article, "url")
        /\ (Returned /\ articles = <<PartialArticle>>) =>
              filtered = << [ title |-> JStr(TxtStockMarketRises),
                              date |-> JStr(TxtDate),
                              source |-> JNull,
                              description |-> JNull,
                              url |-> JNull ] >>

\* C5 witness: the list returned for the example's response.
C5_Witness ==
    /\ Returned
    /\ articles = <<PartialArticle>>
    /\ Len(filtered) = 1

\* requests.get has ended and what it gave has been dealt with.
Handled == pc \in {"loop", "returned", "rendered", "raised", "failed"}

C7_FailureMessageRendered ==
    (pc \in {"rendered", "failed"} /\ response.error # "") =>
        /\ page.status # 0
        /\ page.raised = NoException

\* The body has a shape the strict variant refuses: no mapping, or a mapping
\* whose 'articles' is there and no list.
BadShape(body) ==
    \/ body.t # "dict"
    \/ /\ "articles" \in DOMAIN body.m
       /\ body.m["articles"].t # "list"

\* The body was parsed: requests.get returned, the status raised nothing and
\* the body is JSON.
Parsed ==
    /\ Handled
    /\ response.error = ""
    /\ response.status \notin 400..599
    /\ response.body # NotJson

\* C8: when the parsed body has a refused shape, fetch_filtered_news has raised
\* a ValueError and has processed no article and made no list.
C8_BadShapeRaisesValueError ==
    (Parsed /\ BadShape(response.body)) =>
        /\ Raised
        /\ exc.type = "ValueError"
        /\ articles = <<>> /\ i = 1
        /\ filtered = <<>> /\ picked = <<>>
        /\ page.status = 0

\* C8 witness: a ValueError was raised for a body whose 'articles' is null.
C8_Witness ==
    /\ Raised
    /\ exc.type = "ValueError"
    /\ response.body = JDict([articles |-> JNull])

\* C9: when the parsed body is a mapping without an 'articles' key,
\* fetch_filtered_news raises nothing and its list is empty.
C9_NoArticlesKeyEmptyList ==
    (Parsed /\ response.body.t = "dict" /\ "articles" \notin DOMAIN response.body.m) =>
        /\ Filtering
        /\ exc = NoException
        /\ articles = <<>>
        /\ filtered = <<>>
        /\ pc = "loop" => ENABLED Return

\* C9 witness: a list was returned for the body {'status': ..}.
C9_Witness ==
    /\ Returned
    /\ response.body = JDict([status |-> JStr(TxtStock)])

\* C10: when the parsed body is a mapping whose 'articles' is the empty list,
\* fetch_filtered_news returns the empty list, index() then renders, and the
\* page rendered has status 200.
C10_ZeroArticlesPage200 ==
    (Parsed /\ response.body.t = "dict" /\ "articles" \in DOMAIN response.body.m
            /\ response.body.m["articles"] = JList(<<>>)) =>
        /\ Filtering
        /\ exc = NoException
        /\ filtered = <<>>
        /\ pc = "loop" => ENABLED Return
        /\ pc = "returned" => ENABLED Render
        /\ pc = "rendered" => (page.status = 200 /\ page.news = <<>>
                                /\ page.raised = NoException)

\* C10 witness: the page was rendered for a response with zero articles.
C10_Witness ==
    /\ pc = "rendered"
    /\ "articles" \in DOMAIN response.body.m
    /\ response.body.m["articles"] = JList(<<>>)
    /\ page.status = 200

\* ------------------------------------------------------------ C11
\* The import of config.py has run.
Started == pc # "start"

\* C11: once config.py has been imported, if the environment variable was absent
\* or the empty string the import raised the ValueError whose message names
\* NEWS_API_KEY and the process is halted with no NEWS_API_KEY bound; otherwise
\* NEWS_API_KEY is exactly the value of the environment variable.  While no
\* NEWS_API_KEY is bound, fetch_filtered_news was never called, no request was
\* sent and no page was made.
C11_ConfigLoadFailsOrExposes ==
    /\ Started =>
        IF env = Missing \/ env = JStr(<<>>)
        THEN /\ pc = "halted"
             /\ exc = Exception("ValueError", "NEWS_API_KEY environment variable not set.")
             /\ NEWS_API_KEY = JNull
        ELSE /\ pc # "halted"
             /\ NEWS_API_KEY = env
    /\ NEWS_API_KEY = JNull =>
        /\ pc \in {"start", "halted"}
        /\ invocations = 0
        /\ requests = 0
        /\ sent = NoRequest
        /\ page = NoPage

\* C11 witness: the process was started with NEWS_API_KEY set to the empty
\* string and the import of config has raised.
C11_Witness ==
    /\ pc = "halted"
    /\ env = JStr(<<>>)
    /\ exc.type = "ValueError"

\* ------------------------------------------------------------ the Stock variant (src/Stock)
\* Stock/news_service.KEYWORDS
KEYWORDS == << KwStock >>

TxtNoTitle == <<"N", "o", " ", "T", "i", "t", "l", "e", " ", "A", "v", "a", "i", "l", "a", "b", "l", "e">>
TxtNoDescription == <<"N", "o", " ", "d", "e", "s", "c", "r", "i", "p", "t", "i", "o", "n", " ", "a", "v", "a", "i", "l", "a", "b", "l", "e">>
TxtHash == <<"#">>
TxtUnknownSource == <<"U", "n", "k", "n", "o", "w", "n", " ", "S", "o", "u", "r", "c", "e">>
TxtPublishDate == <<"P", "u", "b", "l", "i", "s", "h", " ", "D", "a", "t", "e">>
TxtRecently == <<"R", "e", "c", "e", "n", "t", "l", "y", " ", "P", "u", "b", "l", "i", "s", "h", "e", "d", " ", "D", "a", "t", "e">>

\* The import of Stock/config.py (lines 4-7): os.environ.get with the key
\* written in the source as its default, then the same test as config.py.
stock_load_config(environment) ==
    LET value == IF environment = Missing THEN JStr(TxtFallbackKey) ELSE environment
    IN  IF ~Truthy(value)
        THEN [raised |-> Exception("ValueError", "NEWS_API_KEY environment variable not set."),
              NEWS_API_KEY |-> JNull]
        ELSE [raised |-> NoException, NEWS_API_KEY |-> value]

\* 'articles' in data  (line 40): a key of a mapping, a part of a text, an
\* element of a list; "TypeError" when data is None or a number.
ContainsArticles(data) ==
    CASE data.t = "dict" -> IF "articles" \in DOMAIN data.m THEN "yes" ELSE "no"
      [] data.t = "str" -> IF In(TxtArticles, data.s) THEN "yes" ELSE "no"
      [] data.t = "list" ->
            IF \E n \in 1..Len(data.l) : data.l[n] = JStr(TxtArticles) THEN "yes" ELSE "no"
      [] OTHER -> "TypeError"

\* What  for article in articles  (line 49) goes over: the elements of a list,
\* the characters of a text, the keys of a mapping.
Items(value) ==
    CASE value.t = "list" -> value.l
      [] value.t = "str" -> [n \in 1..Len(value.s) |-> JStr(<<value.s[n]>>)]
      [] value.t = "dict" ->
            LET keys == SeqOf(DOMAIN value.m)
            IN  [n \in 1..Len(keys) |-> JStr(KeyText(keys[n]))]
      [] OTHER -> <<>>

\* datetime.strptime(text, '%Y-%m-%dT%H:%M:%SZ') for the texts of the model: the
\* one text in that format is TxtDate.
strptime(text) ==
    IF text = TxtDate THEN [ok |-> TRUE, t |-> Instant(90, 0)]
    ELSE [ok |-> FALSE, t |-> Instant(0, 0)]

\* (now - t).days
DaysBetween(now, t) == (now.h - t.h) \div 24

\* date_type (lines 84-94)
DateType(article_date, now) ==
    IF /\ Truthy(article_date)
       /\ IsStr(article_date)
       /\ Len(article_date.s) >= 10
       /\ strptime(article_date.s).ok
       /\ DaysBetween(now, strptime(article_date.s).t) < 1
    THEN TxtRecently
    ELSE TxtPublishDate

\* The body of the for loop of fetch_stock_news (lines 50-103).
StockLoopBody(acc, article, now) ==
    IF ~Truthy(article) \/ ~IsDict(article) THEN acc
    ELSE LET title == IF Truthy(Get(article, "title"))
                      THEN Str(Get(article, "title")) ELSE <<>>
             description == IF Truthy(Get(article, "description"))
                            THEN Str(Get(article, "description")) ELSE <<>>
             search_text == Lower(title \o <<" ">> \o description)
             has_keyword == \E n \in 1..Len(KEYWORDS) : In(Lower(KEYWORDS[n]), search_text)
             article_date == GetOr(article, "publishedAt", JStr(<<>>))
             source_obj == Get(article, "source")
         IN  IF ~has_keyword THEN acc
             ELSE Append(acc,
                    [ title |-> JStr(IF title # <<>> THEN title ELSE TxtNoTitle),
                      date |-> article_date,
                      source |-> IF Truthy(source_obj) /\ IsDict(source_obj)
                                 THEN GetOr(source_obj, "name", JStr(TxtUnknownSource))
                                 ELSE JStr(TxtUnknownSource),
                      description |-> JStr(IF description # <<>> THEN description
                                           ELSE TxtNoDescription),
                      url |-> GetOr(article, "url", JStr(TxtHash)),
                      date_type |-> DateType(article_date, now) ])

\* The for loop (lines 48-103).
StockFilter(items, now) ==
    LET RECURSIVE Loop(_, _)
        Loop(n, acc) ==
            IF n > Len(items) THEN acc
            ELSE Loop(n + 1, StockLoopBody(acc, items[n], now))
    IN  Loop(1, <<>>)

\* An outcome of a call: the exception raised, or the value returned.
Raise(type) == [raised |-> Exception(type, ""), value |-> <<>>]

ReturnValue(value) == [raised |-> NoException, value |-> value]

\* The try block of fetch_stock_news from the answer of requests.get on
\* (lines 36-105): what it returns, or the exception that leaves it.
StockTry(resp, now) ==
    IF resp.error # "" THEN Raise(resp.error)
    ELSE IF RaisesForStatus(resp.status) THEN Raise("HTTPError")
    ELSE IF resp.body = NotJson THEN Raise("JSONDecodeError")
    ELSE IF ContainsArticles(resp.body) = "TypeError" THEN Raise("TypeError")
    ELSE IF ContainsArticles(resp.body) = "no" THEN ReturnValue(<<>>)
    ELSE IF ~IsDict(resp.body) THEN Raise("AttributeError")
    ELSE LET found == GetOr(resp.body, "articles", JList(<<>>))
         IN  IF ~Truthy(found) THEN ReturnValue(<<>>)
             ELSE IF found.t = "num" THEN Raise("TypeError")
             ELSE ReturnValue(StockFilter(Items(found), now))

\* The mutant of fetch_stock_news without its except clause.
fetch_stock_news_reraising(resp, now) == StockTry(resp, now)

\* fetch_stock_news from the answer of requests.get on: the try block, and the
\* except clause that returns [] for any exception (lines 107-109).
fetch_stock_news(resp, now) ==
    IF StockTry(resp, now).raised # NoException THEN ReturnValue(<<>>)
    ELSE StockTry(resp, now)

\* The arguments of requests.get in fetch_stock_news (lines 19-36); no timeout
\* is passed.
StockRequest(key, now) ==
    [ url |-> NEWS_API_URL,
      q |-> Join(TxtOr, [n \in 1..Len(KEYWORDS) |-> <<"\"">> \o KEYWORDS[n] \o <<"\"">>]),
      from |-> strftime(MinusDays(now, 3)),
      to |-> strftime(now),
      sortBy |-> TxtPublishedAt,
      language |-> TxtEn,
      apiKey |-> key,
      pageSize |-> 50,
      timeout |-> 0 ]

TxtUnable == <<"U", "n", "a", "b", "l", "e", " ", "t", "o", " ", "f", "e", "t", "c", "h", " ", "n", "e", "w", "s", " ", "a", "t", " ", "t", "h", "i", "s", " ", "t", "i", "m", "e", ".", " ", "P", "l", "e", "a", "s", "e", " ", "t", "r", "y", " ", "a", "g", "a", "i", "n", " ", "l", "a", "t", "e", "r", ".">>

\* What index() of Stock/app.py renders for an outcome of fetch_stock_news
\* (lines 20-29): the error message when the call raised.
StockPage(outcome) ==
    IF outcome.raised # NoException
    THEN [status |-> 200, articles |-> <<>>, error |-> JStr(TxtUnable)]
    ELSE [status |-> 200, articles |-> outcome.value, error |-> JNull]

\* sys.path[:3]
FirstThree(path) == SubSeq(path, 1, IF Len(path) < 3 THEN Len(path) ELSE 3)

TxtHealthy == <<"h", "e", "a", "l", "t", "h", "y">>
TxtWwwroot == <<"/", "h", "o", "m", "e", "/", "s", "i", "t", "e", "/", "w", "w", "w", "r", "o", "o", "t">>
TxtApp == <<"/", "a", "p", "p">>
TxtZip == <<"/", "u", "s", "r", "/", "l", "i", "b", "/", "p", "y", "t", "h", "o", "n", "3", "9", ".", "z", "i", "p">>
TxtLib == <<"/", "u", "s", "r", "/", "l", "i", "b", "/", "p", "y", "t", "h", "o", "n", "3", ".", "9">>
TxtSite == <<"/", "u", "s", "r", "/", "l", "i", "b", "/", "p", "y", "t", "h", "o", "n", "3", ".", "9", "/", "s", "i", "t", "e", "-", "p", "a", "c", "k", "a", "g", "e", "s">>

\* health() of Stock/app.py (lines 31-34): the mapping Flask answers with.
health(path) ==
    JDict([ status |-> JStr(TxtHealthy),
            python_path |-> JList([n \in 1..Len(FirstThree(path)) |-> JStr(FirstThree(path)[n])]) ])

\* sys.path of the process: main.py puts the directory of the application
\* first (line 8), the rest is the interpreter's.
SysPaths ==
    { << TxtWwwroot, TxtZip, TxtLib, TxtSite >>,
      << TxtApp, TxtLib >> }

\* The elements an 'articles' list is made of, for the Stock variant.
StockArticlePool ==
    { Article(JStr(TxtStockMarketRises), Missing, JStr(TxtDate), FullSource, JStr(TxtUrl)),
      Article(JStr(TxtWeather), JStr(TxtSunny), JStr(TxtDate), FullSource, JStr(TxtUrl)),
      Article(JNull, JList(<<JStr(KwStock)>>), JNull, JNull, JNull),
      Article(JNum, JStr(TxtNifty), JNum, JStr(TxtBBC), Missing),
      JDict(NoKeys), JStr(TxtNotADict), JNull }

\* The bodies the upstream API answers the Stock variant with.
StockBodies ==
    { NotJson, JNull, JNum, JStr(TxtNotADict), JStr(TxtArticles), JList(<<>>),
      JList(<<JStr(TxtArticles)>>), JDict(NoKeys), JDict([status |-> JStr(TxtStock)]) }
    \cup { JDict([articles |-> a]) :
             a \in { JNull, JNum, JStr(<<>>), JStr(TxtStock), JDict(NoKeys),
                     JDict([id |-> JStr(TxtBbcId)]) } }
    \cup { JDict([status |-> JStr(TxtStock), articles |-> JList(items)]) :
             items \in ListsUpTo(StockArticlePool, MaxArticles) }

\* The outcomes of requests.get for the Stock variant.
StockResponses ==
    { [error |-> e, status |-> 0, body |-> JNull] : e \in {"ConnectionError", "Timeout"} }
    \cup { [error |-> "", status |-> st, body |-> b] : st \in {200, 304, 500}, b \in StockBodies }

\* The Stock process starts; the process of app.py is not part of it.
InitStock ==
    /\ Boot({JStr(TxtTestKey)}, {Instant(100, 1)})
    /\ stock \in { StockProcess("start", e, p, t) :
                     e \in {Missing, JStr(<<>>), JStr(TxtTestKey)},
                     p \in SysPaths, t \in Instants }

\* Stock/app.py is imported: it imports news_service, which imports config
\* (app.py 7, news_service.py 3, config.py 4-7).  The ValueError of config is
\* no ImportError, so the handler of app.py (8-11) does not catch it.
StockLoadConfig ==
    /\ stock.pc = "start"
    /\ LET loaded == stock_load_config(stock.env)
       IN  stock' = [stock EXCEPT
                        !.pc = IF loaded.raised # NoException THEN "halted" ELSE "idle",
                        !.NEWS_API_KEY = loaded.NEWS_API_KEY]
    /\ UNCHANGED strict

\* GET / arrives: index() calls fetch_stock_news, which builds the parameters
\* and calls requests.get (app.py 23, news_service.py 19-36).
StockIndex ==
    /\ stock.pc = "idle"
    /\ stock' = [stock EXCEPT !.pc = "awaiting",
                              !.sent = StockRequest(stock.NEWS_API_KEY, stock.now)]
    /\ UNCHANGED strict

\* requests.get ends and fetch_stock_news runs to its end (lines 36-109).
StockGet ==
    /\ stock.pc = "awaiting"
    /\ \E r \in StockResponses :
        stock' = [stock EXCEPT !.pc = "fetched",
                               !.response = r,
                               !.fetched = fetch_stock_news(r, stock.now)]
    /\ UNCHANGED strict

\* index() renders the template (app.py 22-29).
StockRender ==
    /\ stock.pc = "fetched"
    /\ stock' = [stock EXCEPT !.pc = "rendered", !.page = StockPage(stock.fetched)]
    /\ UNCHANGED strict

\* The request is over.
StockFinish ==
    /\ stock.pc = "rendered"
    /\ stock' = [stock EXCEPT !.pc = "idle", !.response = NoResponse,
                              !.fetched = NoOutcome, !.page = NoStockPage]
    /\ UNCHANGED strict

\* GET /health arrives and is answered (app.py 31-34).
StockHealth ==
    /\ stock.pc = "idle"
    /\ stock' = [stock EXCEPT !.health = health(stock.path)]
    /\ UNCHANGED strict

NextStock ==
    \/ StockLoadConfig
    \/ StockIndex
    \/ StockGet
    \/ StockRender
    \/ StockFinish
    \/ StockHealth

SpecStock == InitStock /\ [][NextStock]_vars

\* ------------------------------------------------------------ C12
\* C12: once Stock/config.py has been imported in a process whose environment
\* has no NEWS_API_KEY, the import has raised: the process is halted and no
\* NEWS_API_KEY is bound.
C12_RefusesToStartWithoutKey ==
    (stock.pc \notin {"off", "start"} /\ stock.env = Missing) =>
        /\ stock.pc = "halted"
        /\ stock.NEWS_API_KEY = JNull

\* ------------------------------------------------------------ C13
\* C13: in the loop and after the return, the summaries stand in the order of
\* the articles they were made for: the k-th summary carries the title, the
\* description and the source name of the article at position picked[k], and
\* these positions strictly increase, so no article has two summaries and no
\* summary is moved or merged.
C13_UpstreamOrderKept ==
    Filtering =>
        /\ Len(filtered) = Len(picked)
        /\ \A k \in 1..Len(picked) : picked[k] \in Visited
        /\ \A k1, k2 \in 1..Len(picked) : k1 < k2 => picked[k1] < picked[k2]
        /\ \A k \in 1..Len(filtered) :
              /\ filtered[k].title = Field(articles[picked[k]], "title")
              /\ filtered[k].description = Field(articles[picked[k]], "description")
              /\ filtered[k].source = extract_source_name(Field(articles[picked[k]], "source"))

\* C13 witness: a list of two summaries with different titles was returned for
\* two articles.
C13_Witness ==
    /\ Returned
    /\ Len(filtered) = 2
    /\ filtered[1].title # filtered[2].title
    /\ picked = <<1, 2>>

\* ------------------------------------------------------------ C14
\* C14: over any sequence of invocations, requests.get was called once for each
\* invocation of fetch_filtered_news that has got as far as the call, and once
\* for each that has ended, by a return or by a raise: the two counts are equal
\* but between the call of fetch_filtered_news and its call of requests.get,
\* where the invocation under way has not sent its request yet.
C14_OneGetPerInvocation ==
    /\ pc = "called" => requests = invocations - 1
    /\ pc # "called" => requests = invocations

\* C14 witness: the second invocation has failed on a transport error after
\* the first one failed too, and two requests were sent.
C14_Witness ==
    /\ pc = "failed"
    /\ exc.type \in {"ConnectionError", "Timeout"}
    /\ invocations = 2
    /\ requests = 2

\* ------------------------------------------------------------ C15
EverythingEndpoint ==
    <<"h", "t", "t", "p", "s", ":", "/", "/", "n", "e", "w", "s", "a",
    "p", "i", ".", "o", "r", "g", "/", "v", "2", "/", "e", "v", "e", "r", "y", "t", "h", "i",
    "n",
    "g">>

KeywordsJoinedByOr ==
    <<"s", "t", "o", "c", "k", " ", "O", "R", " ", "s", "t", "o", "c",
    "k", "s", " ", "O", "R", " ", "s", "h", "a", "r", "e", " ", "m", "a", "r", "k", "e", "t",
    " ", "O", "R", " ", "s", "e", "n", "s", "e", "x", " ", "O", "R", " ", "n", "i", "f", "t",
    "y", " ", "O", "R", " ", "m", "a", "r", "k", "e", "t", " ", "O", "R", " ", "e", "a", "r",
    "n", "i", "n", "g", "s", " ", "O", "R", " ", "q", "u", "a", "r", "t", "e", "r", " ", "r",
    "e", "s", "u", "l", "t",
    "s">>

\* C15: whenever a request has been sent, the last one went to
\* https://newsapi.org/v2/everything with sortBy=publishedAt, language=en,
\* pageSize=50, a timeout of 10 seconds, the query 'stock OR stocks OR share
\* market OR sensex OR nifty OR market OR earnings OR quarter results', which
\* holds every keyword of FILTER_KEYWORDS, and as apiKey the NEWS_API_KEY that
\* config bound, which is the value of the environment variable.
C15_RequestParameters ==
    requests > 0 =>
        /\ sent.url = EverythingEndpoint
        /\ sent.sortBy = <<"p", "u", "b", "l", "i", "s", "h", "e", "d", "A", "t">>
        /\ sent.language = <<"e", "n">>
        /\ sent.pageSize = 50
        /\ sent.timeout = 10
        /\ sent.q = KeywordsJoinedByOr
        /\ \A n \in 1..Len(FILTER_KEYWORDS) : OccursIn(FILTER_KEYWORDS[n], sent.q)
        /\ sent.apiKey = NEWS_API_KEY
        /\ sent.apiKey = env
        /\ sent.apiKey.t = "str"

\* C15 witness: the request of a second invocation is under way in a process
\* started with the key 'key2'.
C15_Witness ==
    /\ pc = "awaiting"
    /\ invocations = 2
    /\ sent.apiKey = JStr(<<"k", "e", "y", "2">>)

\* ------------------------------------------------------------ C16
\* fetch_stock_news has ended for the request being served.
StockFetched == stock.pc \in {"fetched", "rendered"}

\* The body of an answer is unparsable, is no mapping, or has an 'articles'
\* that is missing, null or no list.
StockMalformed(r) ==
    \/ r.body = NotJson
    \/ r.body.t # "dict"
    \/ "articles" \notin DOMAIN r.body.m
    \/ r.body.m["articles"].t # "list"

StockFetchFailed ==
    \/ stock.response.error # ""
    \/ (400 <= stock.response.status /\ stock.response.status <= 599)
    \/ StockMalformed(stock.response)

\* C17: when index() of the Stock variant has rendered the page after a failed
\* fetch, the page carries the error message 'Unable to fetch news at this
\* time. Please try again later.'.
C17_ErrorMessageOnFailure ==
    (stock.pc = "rendered" /\ StockFetchFailed) =>
        stock.page.error =
            JStr(<< "U", "n", "a", "b", "l", "e", " ", "t", "o", " ", "f", "e", "t", "c", "h",
                    " ", "n", "e", "w", "s", " ", "a", "t", " ", "t", "h", "i", "s", " ",
                    "t", "i", "m", "e", ".", " ", "P", "l", "e", "a", "s", "e", " ", "t",
                    "r", "y", " ", "a", "g", "a", "i", "n", " ", "l", "a", "t", "e", "r",
                    "." >>)

\* ------------------------------------------------------------ C18
\* C18: whatever /health has answered is the mapping with the one key 'status',
\* the same in every process.
C18_HealthStatusOnly ==
    stock.health # NoHealth =>
        /\ DOMAIN stock.health.m = {"status"}
        /\ stock.health = JDict([status |-> JStr(<<"h", "e", "a", "l", "t", "h", "y">>)])

\* ------------------------------------------------------------ C19
\* C19: the request fetch_stock_news has sent asks for the last 24 hours: its
\* 'from' is the instant 24 hours before now and its 'to' is now, both told to
\* the second.
C19_LastDayWindow ==
    stock.sent # NoRequest =>
        /\ stock.sent.from = [h |-> stock.now.h - 24, frac |-> 0]
        /\ stock.sent.to = [h |-> stock.now.h, frac |-> 0]

\* ------------------------------------------------------------ C20
\* A keyword of FILTER_KEYWORDS occurs in the lowercased text of the field.
KeywordInField(article, key) ==
    \E n \in 1..Len(FILTER_KEYWORDS) : OccursIn(FILTER_KEYWORDS[n], FieldText(article, key))

\* text ends with part / text starts with part
EndsWith(text, part) ==
    /\ Len(part) <= Len(text)
    /\ \A j \in 1..Len(part) : text[Len(text) - Len(part) + j] = part[j]

StartsWith(text, part) ==
    /\ Len(part) <= Len(text)
    /\ \A j \in 1..Len(part) : text[j] = part[j]

\* Title and description are texts, and a keyword with a space in it is split
\* at that space between the end of the title and the start of the description.
KeywordAcrossBoundary(article) ==
    /\ Field(article, "title").t = "str"
    /\ Field(article, "description").t = "str"
    /\ \E n \in 1..Len(FILTER_KEYWORDS) :
          LET kw == FILTER_KEYWORDS[n]
          IN  \E p \in 1..Len(kw) :
                 /\ kw[p] = " "
                 /\ EndsWith(FieldText(article, "title"), SubSeq(kw, 1, p - 1))
                 /\ StartsWith(FieldText(article, "description"), SubSeq(kw, p + 1, Len(kw)))

\* C20 as claimed: every article a summary was made for has a keyword in its
\* title alone or in its description alone.
C20_KeywordInOneFieldAlone ==
    Filtering =>
        \A k \in 1..Len(picked) :
            \/ KeywordInField(articles[picked[k]], "title")
            \/ KeywordInField(articles[picked[k]], "description")

\* C20, amended: every article a summary was made for has a keyword in its
\* title alone, or in its description alone, or has a keyword with a space in
\* it ('share market', 'quarter results') lying across the single space that
\* joins the title to the description.
C20_KeywordInOneFieldOrAcrossTheJoin ==
    Filtering =>
        \A k \in 1..Len(picked) :
            \/ KeywordInField(articles[picked[k]], "title")
            \/ KeywordInField(articles[picked[k]], "description")
            \/ KeywordAcrossBoundary(articles[picked[k]])

\* C20 witness: the article with title 'Quarter' and description 'Results' was
\* selected, though neither field holds a keyword.
C20_Witness ==
    /\ Returned
    /\ \E k \in 1..Len(picked) :
          /\ Field(articles[picked[k]], "title") = JStr(TxtQuarter)
          /\ Field(articles[picked[k]], "description") = JStr(TxtResults)
          /\ ~KeywordInField(articles[picked[k]], "title")
          /\ ~KeywordInField(articles[picked[k]], "description")

\* ------------------------------------------------------------ C21
\* The value is a text or null.
TextOrNull(value) == value.t \in {"str", "null"}

\* C21: in the loop and after the return, title, date, source, description and
\* url of every summary are each a text or null.
C21_SummaryFieldsTextOrNull ==
    Filtering =>
        \A k \in 1..Len(filtered) :
            /\ TextOrNull(filtered[k].title)
            /\ TextOrNull(filtered[k].date)
            /\ TextOrNull(filtered[k].source)
            /\ TextOrNull(filtered[k].description)
            /\ TextOrNull(filtered[k].url)

\* ------------------------------------------------------------ C22
\* The field of the article is missing, null or no text.
NoText(article, key) == Field(article, key).t # "str"

\* The article with the empty text in place of a title or description that is
\* missing, null or no text.
Emptied(article) ==
    JDict([k \in DOMAIN article.m \cup {"title", "description"} |->
              IF k \in {"title", "description"} /\ NoText(article, k)
              THEN JStr(<<>>)
              ELSE article.m[k]])

\* C22: once the shape check has passed no exception is raised and, when
\* fetch_filtered_news has returned, every element was visited.  Among the
\* elements visited, a mapping whose title and description are both missing,
\* null or no text has no summary; a mapping has a summary exactly if the same
\* mapping with the empty text in place of such a title or description would
\* have one; and any element has a summary exactly if it would have one as the
\* only element of the list, whatever the other elements are.
C22_ListReturnedWhateverTheArticles ==
    Filtering =>
        /\ exc = NoException
        /\ Returned => i = Len(articles) + 1
        /\ \A n \in Visited :
              /\ ( /\ articles[n].t = "dict"
                   /\ NoText(articles[n], "title")
                   /\ NoText(articles[n], "description") ) => n \notin PickedSet
              /\ articles[n].t = "dict" =>
                    ((n \in PickedSet) <=> (LoopBody(<<>>, Emptied(articles[n])) # <<>>))
              /\ (n \in PickedSet) <=> (FilterArticles(<<articles[n]>>) # <<>>)

\* C22 witness: a list was returned in which the first article, with a null
\* title and a list as description, has no summary, and the second has one.
C22_Witness ==
    /\ Returned
    /\ Len(articles) = 2
    /\ articles[1].t = "dict"
    /\ Field(articles[1], "title") = JNull
    /\ Field(articles[1], "description").t = "list"
    /\ picked = <<2>>

\* ------------------------------------------------------------ C23
\* The requests that have ended: those that are over and, when index() has
\* just been left, the one being served.
Ended ==
    IF pc \in {"rendered", "failed"}
    THEN Append(served, [response |-> response, outcome |-> Outcome])
    ELSE served

\* The articles of an answer that is a mapping with a list as 'articles'.
ArticlesSent(r) ==
    IF r.body.t = "dict" /\ "articles" \in DOMAIN r.body.m /\ r.body.m["articles"].t = "list"
    THEN r.body.m["articles"].l
    ELSE <<>>

\* C23: in any sequence of invocations, two invocations that got the same
\* answer from requests.get ended the same way, with the same exception or
\* the same list, whatever was served between them; no invocation ended with
\* both an exception and summaries; and each summary of a returned list
\* carries the title, description and url of an article of the answer to its
\* own invocation.
C23_OutcomeDependsOnResponseOnly ==
    /\ \A a, b \in 1..Len(Ended) :
          Ended[a].response = Ended[b].response => Ended[a].outcome = Ended[b].outcome
    /\ \A a \in 1..Len(Ended) :
          LET value == Ended[a].outcome.value
              sentArticles == ArticlesSent(Ended[a].response)
          IN  /\ Ended[a].outcome.raised # NoException => value = <<>>
              /\ Len(value) <= Len(sentArticles)
              /\ \A k \in 1..Len(value) :
                    \E n \in 1..Len(sentArticles) :
                        /\ sentArticles[n].t = "dict"
                        /\ value[k].title = Field(sentArticles[n], "title")
                        /\ value[k].description = Field(sentArticles[n], "description")
                        /\ value[k].url = Field(sentArticles[n], "url")

\* C23 witness: the second request has just ended with the same answer as the
\* first, which returned a summary, and with the same list.
C23_Witness ==
    /\ pc = "rendered"
    /\ Len(served) = 1
    /\ served[1].response = response
    /\ served[1].outcome.value # <<>>
    /\ filtered = served[1].outcome.value
====
